---- MODULE Spec2Model ----
(***************************************************************************)
(* Go Blinds LLC SMS service (src/server.js): the conversation store, the  *)
(* message composer, the dispatch gateway and the four request handlers.   *)
(*                                                                         *)
(* A text is a sequence of symbols.  Texts the program inspects (inbound   *)
(* bodies, completion contents) are sequences of one-character strings;    *)
(* the literal texts it only passes along are kept as one symbol.          *)
(* A request handler runs from one await to the next without interruption  *)
(* (single-threaded event loop), so each action is one such run.           *)
(* Timestamps (new Date()) are left out: no handler reads them.            *)
(***************************************************************************)
EXTENDS Naturals, Sequences, FiniteSets, TLC

\* Number of requests the clients send; requests are numbered in arrival order.
MaxReq == 2

Req == 1..MaxReq

\* References to conversation objects: the object a request creates is named
\* by the request; Prior names an object that exists before the first request.
Prior == MaxReq + 1

Obj == Req \cup {Prior}

\* ------------------------------------------------------------------------
\* Inputs
\* ------------------------------------------------------------------------
Phones == {"+15551234567", "+10000000000"}

Names == {"Jane"}

Contexts == {"blind install quote"}

BodyHi == <<"h", "i">>

BodyHours == <<"h", "o", "u", "r", "s">>

BodyConfirm == <<"I", " ", "C", "o", "n", "F", "i", "r", "m", "!">>

BodyReschedule == <<"p", "l", "s", " ", "R", "e", "S", "c", "h", "e", "d", "u", "l", "e">>

BodyBoth == <<"r", "e", "s", "c", "h", "e", "d", "u", "l", "e", ",", "c", "o", "n", "f", "i", "r", "m">>

Bodies == {BodyHi, BodyHours, BodyConfirm, BodyReschedule, BodyBoth}

\* What the completion API can resolve with: a response with no choice, or
\* one whose first choice carries a content.
Contents == {<<" ", "S", "u", "r", "e", "!", "\n">>}

ApiResponses == {[choices |-> <<>>]} \cup {[choices |-> <<c>>] : c \in Contents}

\* Outcome of openai.chat.completions.create: rejected, or resolved.
ApiOutcomes == {[ok |-> FALSE, response |-> [choices |-> <<>>]]}
               \cup {[ok |-> TRUE, response |-> a] : a \in ApiResponses}

\* ------------------------------------------------------------------------
\* String functions
\* ------------------------------------------------------------------------
Lower == <<"a", "b", "c", "d", "e", "f", "g", "h", "i", "j", "k", "l", "m",
           "n", "o", "p", "q", "r", "s", "t", "u", "v", "w", "x", "y", "z">>

Upper == <<"A", "B", "C", "D", "E", "F", "G", "H", "I", "J", "K", "L", "M",
           "N", "O", "P", "Q", "R", "S", "T", "U", "V", "W", "X", "Y", "Z">>

Whitespace == {" ", "\n", "\t"}

\* Mutant: the comparison keeps the letter case of the body.
toUpperCase_Identity(s) == s

toUpperCase(s) ==
    [i \in 1..Len(s) |->
        IF \E k \in 1..Len(Lower) : Lower[k] = s[i]
        THEN Upper[CHOOSE k \in 1..Len(Lower) : Lower[k] = s[i]]
        ELSE s[i]]

\* Mutant: the keyword is looked for at the start of the body only.
includes_StartsWith(s, sub) ==
    Len(sub) <= Len(s) /\ SubSeq(s, 1, Len(sub)) = sub

includes(s, sub) ==
    \E i \in 1..(Len(s) + 1) :
        /\ i + Len(sub) - 1 <= Len(s)
        /\ SubSeq(s, i, i + Len(sub) - 1) = sub

RECURSIVE trimStart(_)
trimStart(s) ==
    IF s # <<>> /\ Head(s) \in Whitespace THEN trimStart(Tail(s)) ELSE s

RECURSIVE trimEnd(_)
trimEnd(s) ==
    IF s # <<>> /\ s[Len(s)] \in Whitespace
    THEN trimEnd(SubSeq(s, 1, Len(s) - 1))
    ELSE s

trim(s) == trimEnd(trimStart(s))

\* Mutant: slice(0, n), the first n elements.
sliceLast_FirstElements(s, n) ==
    IF Len(s) <= n THEN s ELSE SubSeq(s, 1, n)

\* Array.prototype.slice(-n): the last n elements, all of them when fewer.
sliceLast(s, n) ==
    IF Len(s) <= n THEN s ELSE SubSeq(s, Len(s) - n + 1, Len(s))

\* ------------------------------------------------------------------------
\* Literal texts
\* ------------------------------------------------------------------------
\* Mutant: the keyword is misspelt.
CONFIRM_Misspelt == <<"C", "O", "N", "F", "R", "I", "M">>

CONFIRM == <<"C", "O", "N", "F", "I", "R", "M">>

RESCHEDULE == <<"R", "E", "S", "C", "H", "E", "D", "U", "L", "E">>

fallbackMessage == <<"Go Blinds LLC: Thanks for your message. We'll get back to you soon. Reply STOP to opt out.">>

confirmMessage == <<"Go Blinds LLC: Perfect! Your appointment is confirmed. We'll send a reminder the day before. Reply STOP to opt out.">>

rescheduleMessage == <<"Go Blinds LLC: No problem! Please call us at [your phone] to reschedule or reply with your preferred times. Reply STOP to opt out.">>

emptyTwiML == "<Response></Response>"

\* ------------------------------------------------------------------------
\* State
\* ------------------------------------------------------------------------
VARIABLES
    conversations,  \* the Map: phone -> reference to a conversation object, 0 when absent
    heap,           \* conversation objects by reference; an object is named by the request that made it
    nextReq,        \* number of requests that have arrived
    req             \* per request: its inputs, locals, position, external calls and responses

vars == <<conversations, heap, nextReq, req>>

NoRef == 0

\* A slot of the heap that holds no object yet.
Unallocated == [name |-> "", context |-> "", messages |-> <<>>]

\* A request that has not arrived.  pc is the await the handler is suspended
\* at ("ai", "sms") or "done"; conversation and text are the handler's locals;
\* ai and sms list the external calls it issued, res the responses it sent.
NoRequest ==
    [op |-> "none", pc |-> "idle", phone |-> "", body |-> <<>>, name |-> "",
     context |-> "", branch |-> "", conversation |-> NoRef, text |-> <<>>,
     ai |-> <<>>, sms |-> <<>>, res |-> <<>>]

\* A transcript entry { direction, message, timestamp }.
Message(direction, message) == [direction |-> direction, message |-> message]

\* Mutant: the entry is put in front of the transcript (unshift).
push_Unshift(messages, m) == <<m>> \o messages

\* Mutant: the entry replaces the transcript (assignment instead of push).
push_Overwrite(messages, m) == <<m>>

\* Array.prototype.push on a transcript.
push(messages, m) == Append(messages, m)

\* Mutant: name and context are stored in each other's place.
initiatedConversation_Swapped(customer_name, trigger_context) ==
    [name |-> trigger_context, context |-> customer_name, messages |-> <<>>]

\* The object InitiateContact stores for the phone.
initiatedConversation(customer_name, trigger_context) ==
    [name |-> customer_name, context |-> trigger_context, messages |-> <<>>]

\* Mutant: the default context is a copy of the default name.
defaultConversation_ContextCopied ==
    [name |-> "Customer", context |-> "Customer", messages |-> <<>>]

\* The object HandleInbound creates for a phone the store does not know.
defaultConversation ==
    [name |-> "Customer", context |-> "General inquiry", messages |-> <<>>]

Init ==
    /\ conversations = [p \in Phones |-> NoRef]
    /\ heap = [o \in Obj |-> Unallocated]
    /\ nextReq = 0
    /\ req = [r \in Req |-> NoRequest]

\* ------------------------------------------------------------------------
\* Message Composer and Dispatch Gateway
\* ------------------------------------------------------------------------
\* Mutant: the catch block returns nothing usable instead of the fallback.
generateAIResponse_NoFallback(outcome) ==
    IF outcome.ok /\ outcome.response.choices # <<>>
    THEN trim(outcome.response.choices[1])
    ELSE <<>>

\* generateAIResponse, from the point where the completion call settles:
\* the trimmed content of the first choice, or the fallback when the call
\* rejected or the response has no first choice (the TypeError is caught).
generateAIResponse(outcome) ==
    IF outcome.ok /\ outcome.response.choices # <<>>
    THEN trim(outcome.response.choices[1])
    ELSE fallbackMessage

\* The completion call generateAIResponse issues, before it settles.
AiCall(customerMessage, businessContext, conversationHistory) ==
    [customerMessage |-> customerMessage, businessContext |-> businessContext,
     conversationHistory |-> conversationHistory, outcome |-> "pending"]

\* The try block of generateAIResponse runs to its return exactly when the
\* call resolved with a first choice; otherwise the catch block runs.
AiSettled(call, outcome) ==
    [call EXCEPT !.outcome = IF outcome.ok /\ outcome.response.choices # <<>>
                             THEN "returned" ELSE "caught"]

\* The transport call sendSMS issues, before it settles.
SmsCall(to, message) == [to |-> to, body |-> message, outcome |-> "pending"]

SmsSettled(call, delivered) ==
    [call EXCEPT !.outcome = IF delivered THEN "delivered" ELSE "failed"]

\* Mutant: the catch block of sendSMS logs the error and does not rethrow it.
sendSMSThrows_Swallowed(delivered) == FALSE

\* sendSMS throws to its caller exactly when the transport call rejected.
sendSMSThrows(delivered) == ~delivered

greetingPrompt(customer_name, trigger_context) ==
    <<"Customer ", customer_name, " needs help with: ", trigger_context,
      ". Send a friendly greeting and ask how we can help.">>

historyLine(m) == <<m.direction, ":", " ">> \o m.message

RECURSIVE join(_, _)
join(lines, sep) ==
    IF lines = <<>> THEN <<>>
    ELSE IF Len(lines) = 1 THEN lines[1]
    ELSE lines[1] \o sep \o join(Tail(lines), sep)

contextStringOf(messages) ==
    LET recentMessages == sliceLast(messages, 3)
    IN  join([i \in 1..Len(recentMessages) |-> historyLine(recentMessages[i])], <<"\n">>)

\* ------------------------------------------------------------------------
\* Responses
\* ------------------------------------------------------------------------
\* Mutant: the status set by res.status(...) is lost.
JsonResponse_StatusLost(status, body) == [status |-> 200, json |-> body]

JsonResponse(status, body) == [status |-> status, json |-> body]

XmlResponse == [status |-> 200, contentType |-> "text/xml", send |-> emptyTwiML]

\* Mutant: the catch block acknowledges like the success path.
WebhookError_Acknowledged == [status |-> 200, contentType |-> "text/xml", send |-> emptyTwiML]

WebhookError == [status |-> 500, contentType |-> "text/html", send |-> emptyTwiML]

\* Mutant: the handler returns without writing a response.
respond_Nothing(sent, response) == sent

\* res.send / res.json: one more response written for the request.
respond(sent, response) == Append(sent, response)

\* ------------------------------------------------------------------------
\* Route 1: POST /api/initiate-contact, up to the completion call
\* ------------------------------------------------------------------------
InitiateContact(customer_phone, customer_name, trigger_context) ==
    /\ nextReq < MaxReq
    /\ LET r == nextReq + 1
       IN  /\ nextReq' = r
           /\ conversations' = [conversations EXCEPT ![customer_phone] = r]
           /\ heap' = [heap EXCEPT ![r] = initiatedConversation(customer_name,
                                                                trigger_context)]
           /\ req' = [req EXCEPT ![r] =
                        [NoRequest EXCEPT
                            !.op = "InitiateContact",
                            !.pc = "ai",
                            !.phone = customer_phone,
                            !.name = customer_name,
                            !.context = trigger_context,
                            !.ai = <<AiCall(greetingPrompt(customer_name, trigger_context),
                                            trigger_context, <<>>)>>]]

\* ------------------------------------------------------------------------
\* Route 2: POST /api/sms/webhook, up to its first await
\* ------------------------------------------------------------------------
\* Mutant: the handler never finds the stored Conversation and makes a new one.
foundConversation_Never(customerPhone) == NoRef

\* conversations.get(customerPhone): the stored object, shared by reference.
foundConversation(customerPhone) == conversations[customerPhone]

HandleInbound(customerPhone, messageBody) ==
    /\ nextReq < MaxReq
    /\ LET r == nextReq + 1
           arrived == [NoRequest EXCEPT !.op = "HandleInbound",
                                        !.phone = customerPhone,
                                        !.body = messageBody]
       IN  /\ nextReq' = r
           /\ IF includes(toUpperCase(messageBody), CONFIRM)
              THEN /\ req' = [req EXCEPT ![r] =
                                [arrived EXCEPT !.branch = "confirm", !.pc = "sms",
                                                !.sms = <<SmsCall(customerPhone, confirmMessage)>>]]
                   /\ UNCHANGED <<conversations, heap>>
              ELSE IF includes(toUpperCase(messageBody), RESCHEDULE)
              THEN /\ req' = [req EXCEPT ![r] =
                                [arrived EXCEPT !.branch = "reschedule", !.pc = "sms",
                                                !.sms = <<SmsCall(customerPhone, rescheduleMessage)>>]]
                   /\ UNCHANGED <<conversations, heap>>
              ELSE LET found == foundConversation(customerPhone)
                       conversation == IF found = NoRef THEN r ELSE found
                       created == IF found = NoRef
                                  THEN [heap EXCEPT ![r] = defaultConversation]
                                  ELSE heap
                       pushed == [created EXCEPT ![conversation].messages =
                                    push(@, Message("inbound", messageBody))]
                   IN  /\ conversations' = [conversations EXCEPT ![customerPhone] = conversation]
                       /\ heap' = pushed
                       /\ req' = [req EXCEPT ![r] =
                                    [arrived EXCEPT
                                        !.branch = "reply", !.pc = "ai",
                                        !.conversation = conversation,
                                        !.ai = <<AiCall(messageBody,
                                                        pushed[conversation].context,
                                                        contextStringOf(pushed[conversation].messages))>>]]

\* ------------------------------------------------------------------------
\* The completion call of request r settles: generateAIResponse returns and
\* the handler goes on to sendSMS.
\* ------------------------------------------------------------------------
\* Mutant: a failed completion call is issued a second time.
CompletionReturns_RetriesOnce(r, outcome) ==
    /\ req[r].pc = "ai"
    /\ IF ~outcome.ok /\ Len(req[r].ai) = 1
       THEN req' = [req EXCEPT ![r].ai = <<AiSettled(@[1], outcome),
                                          [@[1] EXCEPT !.outcome = "pending"]>>]
       ELSE LET text == generateAIResponse(outcome)
            IN  req' = [req EXCEPT ![r].pc = "sms",
                                   ![r].text = text,
                                   ![r].ai = <<AiSettled(@[1], outcome)>>,
                                   ![r].sms = <<SmsCall(req[r].phone, text)>>]
    /\ UNCHANGED <<conversations, heap, nextReq>>

CompletionReturns(r, outcome) ==
    /\ req[r].pc = "ai"
    /\ LET text == generateAIResponse(outcome)
       IN  req' = [req EXCEPT ![r].pc = "sms",
                              ![r].text = text,
                              ![r].ai = <<AiSettled(@[1], outcome)>>,
                              ![r].sms = <<SmsCall(req[r].phone, text)>>]
    /\ UNCHANGED <<conversations, heap, nextReq>>

\* ------------------------------------------------------------------------
\* The transport call of request r settles: sendSMS returns or rethrows and
\* the handler runs to its response.
\* ------------------------------------------------------------------------
SmsReturns(r, delivered) ==
    /\ req[r].pc = "sms"
    /\ LET settled == [req EXCEPT ![r].pc = "done",
                                  ![r].sms = <<SmsSettled(@[1], delivered)>>]
       IN  IF sendSMSThrows(delivered)
           THEN /\ req' = [settled EXCEPT ![r].res =
                             respond(@, IF req[r].op = "InitiateContact"
                                        THEN JsonResponse(500, [error |-> "Failed to initiate contact"])
                                        ELSE WebhookError)]
                /\ UNCHANGED <<conversations, heap>>
           ELSE IF req[r].op = "InitiateContact"
           THEN LET conversation == conversations[req[r].phone]
                IN  /\ heap' = [heap EXCEPT ![conversation].messages =
                                  push(@, Message("outbound", req[r].text))]
                    /\ req' = [settled EXCEPT ![r].conversation = conversation,
                                              ![r].res = respond(@, JsonResponse(200,
                                                  [success |-> TRUE,
                                                   message |-> "Contact initiated",
                                                   initialMessage |-> req[r].text]))]
                    /\ UNCHANGED conversations
           ELSE IF req[r].branch = "reply"
           THEN /\ heap' = [heap EXCEPT ![req[r].conversation].messages =
                              push(@, Message("outbound", req[r].text))]
                /\ req' = [settled EXCEPT ![r].res = respond(@, XmlResponse)]
                /\ UNCHANGED conversations
           ELSE /\ req' = [settled EXCEPT ![r].res = respond(@, XmlResponse)]
                /\ UNCHANGED <<conversations, heap>>
    /\ UNCHANGED nextReq

\* ------------------------------------------------------------------------
\* Route 3: GET /api/conversations/:phone
\* ------------------------------------------------------------------------
\* Mutant: a Conversation with an empty transcript is reported as not found.
GetConversationResponse_EmptyIsMissing(phone) ==
    LET conversation == conversations[phone]
    IN  IF conversation = NoRef \/ heap[conversation].messages = <<>>
        THEN JsonResponse(404, [error |-> "Conversation not found"])
        ELSE JsonResponse(200, heap[conversation])

GetConversationResponse(phone) ==
    LET conversation == conversations[phone]
    IN  IF conversation = NoRef
        THEN JsonResponse(404, [error |-> "Conversation not found"])
        ELSE JsonResponse(200, heap[conversation])

GetConversation(phone) ==
    /\ nextReq < MaxReq
    /\ nextReq' = nextReq + 1
    /\ req' = [req EXCEPT ![nextReq + 1] =
                 [NoRequest EXCEPT !.op = "GetConversation", !.pc = "done",
                                   !.phone = phone,
                                   !.res = respond(@, GetConversationResponse(phone))]]
    /\ UNCHANGED <<conversations, heap>>

\* ------------------------------------------------------------------------
\* Route 4: GET /api/conversations
\* ------------------------------------------------------------------------
\* Mutant: lastMessage is the first entry of the transcript.
Summary_FirstMessage(conversation) ==
    LET n == Len(conversation.messages)
    IN  IF n = 0
        THEN [name |-> conversation.name, context |-> conversation.context,
              messageCount |-> n]
        ELSE [name |-> conversation.name, context |-> conversation.context,
              messageCount |-> n, lastMessage |-> conversation.messages[1]]

\* One entry of allConversations as res.json writes it: a lastMessage that is
\* undefined (empty transcript) is left out of the JSON.
Summary(conversation) ==
    LET n == Len(conversation.messages)
    IN  IF n = 0
        THEN [name |-> conversation.name, context |-> conversation.context,
              messageCount |-> n]
        ELSE [name |-> conversation.name, context |-> conversation.context,
              messageCount |-> n, lastMessage |-> conversation.messages[n]]

ListConversationsResponse ==
    JsonResponse(200, [phone \in {p \in Phones : conversations[p] # NoRef} |->
                          Summary(heap[conversations[phone]])])

ListConversations ==
    /\ nextReq < MaxReq
    /\ nextReq' = nextReq + 1
    /\ req' = [req EXCEPT ![nextReq + 1] =
                 [NoRequest EXCEPT !.op = "ListConversations", !.pc = "done",
                                   !.res = respond(@, ListConversationsResponse)]]
    /\ UNCHANGED <<conversations, heap>>

\* ------------------------------------------------------------------------
\* Specification: requests arrive at any time and interleave at their awaits
\* ------------------------------------------------------------------------
Next ==
    \/ \E p \in Phones, n \in Names, c \in Contexts : InitiateContact(p, n, c)
    \/ \E p \in Phones, b \in Bodies : HandleInbound(p, b)
    \/ \E r \in Req, o \in ApiOutcomes : CompletionReturns(r, o)
    \/ \E r \in Req, d \in BOOLEAN : SmsReturns(r, d)
    \/ \E p \in Phones : GetConversation(p)
    \/ ListConversations

Spec == Init /\ [][Next]_vars

\* ------------------------------------------------------------------------
\* Specification: a client that sends a request only when no other request
\* is in flight (requests run one after another, without overlap)
\* ------------------------------------------------------------------------
Quiet == \A r \in Req : req[r].pc \in {"idle", "done"}

SeqNext ==
    \/ Quiet /\ \E p \in Phones, n \in Names, c \in Contexts : InitiateContact(p, n, c)
    \/ Quiet /\ \E p \in Phones, b \in Bodies : HandleInbound(p, b)
    \/ \E r \in Req, o \in ApiOutcomes : CompletionReturns(r, o)
    \/ \E r \in Req, d \in BOOLEAN : SmsReturns(r, d)
    \/ Quiet /\ \E p \in Phones : GetConversation(p)
    \/ Quiet /\ ListConversations

SeqSpec == Init /\ [][SeqNext]_vars

\* ------------------------------------------------------------------------
\* Specification: the service has already completed one exchange with a
\* phone (an inbound "hi" and its delivered reply) when the requests arrive
\* ------------------------------------------------------------------------
WarmPhone == "+15551234567"

WarmInit ==
    /\ conversations = [p \in Phones |-> IF p = WarmPhone THEN Prior ELSE NoRef]
    /\ heap = [o \in Obj |->
                IF o = Prior
                THEN [defaultConversation EXCEPT !.messages =
                        <<Message("inbound", BodyHi),
                          Message("outbound", <<"S", "u", "r", "e", "!">>)>>]
                ELSE Unallocated]
    /\ nextReq = 0
    /\ req = [r \in Req |-> NoRequest]

WarmSpec == WarmInit /\ [][Next]_vars

\* ------------------------------------------------------------------------
\* Specification: every external call eventually resolves or rejects
\* ------------------------------------------------------------------------
FairSpec ==
    /\ Spec
    /\ \A r \in Req : WF_vars(\E o \in ApiOutcomes : CompletionReturns(r, o))
    /\ \A r \in Req : WF_vars(\E d \in BOOLEAN : SmsReturns(r, d))

\* ------------------------------------------------------------------------
\* Vocabulary of the properties
\* ------------------------------------------------------------------------
\* Two characters are the same letter in some letter case.
SameLetter(a, b) ==
    \/ a = b
    \/ \E k \in 1..Len(Lower) : {a, b} = {Lower[k], Upper[k]}

\* The text s contains the word w, letter case ignored.
ContainsAnyCase(s, w) ==
    \E i \in 0..Len(s) :
        /\ i + Len(w) <= Len(s)
        /\ \A k \in 1..Len(w) : SameLetter(s[i + k], w[k])

WordConfirm == <<"c", "o", "n", "f", "i", "r", "m">>

WordReschedule == <<"r", "e", "s", "c", "h", "e", "d", "u", "l", "e">>

\* Request r arrives in this step as a HandleInbound request.
InboundArrives(r) ==
    /\ nextReq = r - 1
    /\ nextReq' = r
    /\ req'[r].op = "HandleInbound"

\* Request r takes this step (each step belongs to exactly one request).
StepOf(r) == req'[r] # req[r]

\* The conversation objects that exist.
Allocated == {o \in Obj : heap[o] # Unallocated}

\* The transcript the store holds for phone p (p has a Conversation).
Transcript(p) == heap[conversations[p]].messages

IsPrefix(s, t) == Len(s) <= Len(t) /\ SubSeq(t, 1, Len(s)) = s

\* ------------------------------------------------------------------------
\* C1: every finished HandleInbound request was answered exactly with the
\* empty <Response></Response> body and a success status.
\* ------------------------------------------------------------------------
C1_WebhookAlwaysAcknowledged ==
    \A r \in Req :
        (req[r].op = "HandleInbound" /\ req[r].pc = "done") =>
            /\ Len(req[r].res) = 1
            /\ req[r].res[1].send = emptyTwiML
            /\ req[r].res[1].status \in 200..299

\* ------------------------------------------------------------------------
\* C2: a HandleInbound request from a phone the store does not know creates
\* exactly one Conversation for it, named "Customer" with context "General
\* inquiry".
\* ------------------------------------------------------------------------
CreatesDefault(p) ==
    /\ conversations'[p] \in Allocated' \ Allocated
    /\ Cardinality(Allocated') = Cardinality(Allocated) + 1
    /\ heap'[conversations'[p]].name = "Customer"
    /\ heap'[conversations'[p]].context = "General inquiry"
    /\ \A q \in Phones \ {p} : conversations'[q] = conversations[q]

\* C2 as written: for all inbound bodies.
C2_CreatesForEveryBody ==
    [][\A r \in Req :
          (InboundArrives(r) /\ conversations[req'[r].phone] = NoRef)
              => CreatesDefault(req'[r].phone)]_vars

\* C2 amended: for the bodies that contain neither keyword; a keyword body
\* creates nothing.
C2_CreatesForNonKeywordBody ==
    [][\A r \in Req :
          (InboundArrives(r) /\ conversations[req'[r].phone] = NoRef) =>
              IF \/ ContainsAnyCase(req'[r].body, WordConfirm)
                 \/ ContainsAnyCase(req'[r].body, WordReschedule)
              THEN UNCHANGED <<conversations, heap>>
              ELSE CreatesDefault(req'[r].phone)]_vars

C2_Witness ==
    \E r \in Req :
        /\ req[r].op = "HandleInbound"
        /\ req[r].conversation = r
        /\ conversations[req[r].phone] = r
        /\ heap[r].name = "Customer"

\* ------------------------------------------------------------------------
\* C3: a HandleInbound request whose body contains "confirm" in any letter
\* case dispatches exactly the confirmation text to the sender, and none of
\* its steps changes the Conversation Store.
\* ------------------------------------------------------------------------
IsConfirmRequest(r) ==
    /\ req[r].op = "HandleInbound"
    /\ ContainsAnyCase(req[r].body, WordConfirm)

C3_ConfirmDispatchesAndKeepsStore ==
    /\ [](\A r \in Req :
            IsConfirmRequest(r) =>
                /\ Len(req[r].sms) = 1
                /\ req[r].sms[1].to = req[r].phone
                /\ req[r].sms[1].body = confirmMessage)
    /\ [][\A r \in Req :
            (StepOf(r) /\ IsConfirmRequest(r)')
                => UNCHANGED <<conversations, heap>>]_vars

C3_Witness ==
    \E r \in Req :
        /\ IsConfirmRequest(r)
        /\ req[r].pc = "done"
        /\ req[r].sms[1].outcome = "delivered"
        /\ conversations[req[r].phone] # NoRef

\* ------------------------------------------------------------------------
\* C4: a HandleInbound request whose body contains "reschedule" in any
\* letter case dispatches the reschedule text to the sender and appends no
\* Message to any transcript.
\* ------------------------------------------------------------------------
IsRescheduleRequest(r) ==
    /\ req[r].op = "HandleInbound"
    /\ ContainsAnyCase(req[r].body, WordReschedule)

DispatchesReschedule(r) ==
    /\ Len(req[r].sms) = 1
    /\ req[r].sms[1].to = req[r].phone
    /\ req[r].sms[1].body = rescheduleMessage

\* C4 as written: for every body that contains "reschedule".
C4_RescheduleDispatches ==
    /\ [](\A r \in Req : IsRescheduleRequest(r) => DispatchesReschedule(r))
    /\ [][\A r \in Req :
            (StepOf(r) /\ IsRescheduleRequest(r)')
                => \A o \in Obj : heap'[o].messages = heap[o].messages]_vars

\* C4 amended: for every body that contains "reschedule" and not "confirm".
C4_RescheduleWithoutConfirmDispatches ==
    /\ [](\A r \in Req :
            (IsRescheduleRequest(r) /\ ~IsConfirmRequest(r))
                => DispatchesReschedule(r))
    /\ [][\A r \in Req :
            (StepOf(r) /\ IsRescheduleRequest(r)')
                => \A o \in Obj : heap'[o].messages = heap[o].messages]_vars

C4_Witness ==
    \E r \in Req :
        /\ IsRescheduleRequest(r)
        /\ ~IsConfirmRequest(r)
        /\ req[r].pc = "done"
        /\ req[r].sms[1].outcome = "delivered"
        /\ conversations[req[r].phone] # NoRef

\* ------------------------------------------------------------------------
\* C5: when the completion call fails, generateAIResponse returns the
\* fallback text and the calling request goes on to dispatch it: the request
\* is at or past its dispatch of the fallback text, and it fails only if
\* that dispatch fails.
\* ------------------------------------------------------------------------
C5_FallbackOnCompletionFailure ==
    \A r \in Req :
        (req[r].ai # <<>> /\ req[r].ai[1].outcome = "caught") =>
            /\ req[r].text = fallbackMessage
            /\ req[r].pc \in {"sms", "done"}
            /\ Len(req[r].sms) = 1
            /\ req[r].sms[1].to = req[r].phone
            /\ req[r].sms[1].body = fallbackMessage
            /\ (req[r].pc = "sms") => (req[r].res = <<>>)
            /\ (req[r].pc = "done" /\ req[r].sms[1].outcome = "delivered")
                   => (Len(req[r].res) = 1 /\ req[r].res[1].status = 200)

C5_Witness ==
    \E r1, r2 \in Req :
        /\ req[r1].op = "InitiateContact"
        /\ req[r2].op = "HandleInbound"
        /\ \A r \in {r1, r2} :
              /\ req[r].ai # <<>>
              /\ req[r].ai[1].outcome = "caught"
              /\ req[r].pc = "done"
              /\ req[r].sms[1].outcome = "delivered"

\* ------------------------------------------------------------------------
\* C6: when the only requests a phone has seen are n non-keyword
\* HandleInbound requests that ran one after another and whose dispatch
\* succeeded, its transcript is the 2n Messages inbound, outbound, inbound,
\* outbound, ..., the inbound bodies in arrival order and each outbound body
\* the reply dispatched for the inbound before it.  (Checked under SeqSpec.)
\* ------------------------------------------------------------------------
IsKeywordBody(b) ==
    ContainsAnyCase(b, WordConfirm) \/ ContainsAnyCase(b, WordReschedule)

\* Only non-keyword HandleInbound requests, all answered after a successful
\* dispatch, have touched phone p.
OnlyRepliedInbounds(p) ==
    \A r \in 1..nextReq :
        (req[r].phone = p /\ req[r].op \in {"InitiateContact", "HandleInbound"}) =>
            /\ req[r].op = "HandleInbound"
            /\ ~IsKeywordBody(req[r].body)
            /\ req[r].pc = "done"
            /\ req[r].sms[1].outcome = "delivered"

InboundsOf(p) == {r \in 1..nextReq : req[r].op = "HandleInbound" /\ req[r].phone = p}

\* The k-th smallest element of a set of numbers.
Nth(S, k) == CHOOSE x \in S : Cardinality({y \in S : y < x}) = k - 1

C6_SequentialInboundsAlternate ==
    \A p \in Phones :
        (OnlyRepliedInbounds(p) /\ InboundsOf(p) # {}) =>
            LET n == Cardinality(InboundsOf(p))
                t == Transcript(p)
            IN  /\ Len(t) = 2 * n
                /\ \A k \in 1..n :
                      LET r == Nth(InboundsOf(p), k)
                      IN  /\ t[2 * k - 1] = [direction |-> "inbound", message |-> req[r].body]
                          /\ t[2 * k] = [direction |-> "outbound", message |-> req[r].sms[1].body]

C6_Witness ==
    \E p \in Phones :
        /\ OnlyRepliedInbounds(p)
        /\ Cardinality(InboundsOf(p)) >= 2
        /\ Cardinality({req[r].body : r \in InboundsOf(p)}) > 1
        /\ Cardinality({req[r].text : r \in InboundsOf(p)}) > 1

\* ------------------------------------------------------------------------
\* C7: after an InitiateContact request that ran with no other request in
\* flight and whose dispatch succeeded, the store holds for its phone the
\* given name and context and a transcript of exactly one outbound Message,
\* the dispatched greeting, which is also the initialMessage of the
\* success response; whatever the phone's transcript was before.
\* (Checked under SeqSpec, in the state the request leaves.)
\* ------------------------------------------------------------------------
C7_InitiateContactResult ==
    \A r \in Req :
        (/\ r = nextReq
         /\ req[r].op = "InitiateContact"
         /\ req[r].pc = "done"
         /\ req[r].sms[1].outcome = "delivered") =>
            LET p == req[r].phone
                greeting == req[r].sms[1].body
            IN  /\ req[r].sms[1].to = p
                /\ conversations[p] # NoRef
                /\ heap[conversations[p]].name = req[r].name
                /\ heap[conversations[p]].context = req[r].context
                /\ Transcript(p) = <<[direction |-> "outbound", message |-> greeting]>>
                /\ Len(req[r].res) = 1
                /\ req[r].res[1].status = 200
                /\ req[r].res[1].json.success = TRUE
                /\ req[r].res[1].json.initialMessage = greeting

C7_Witness ==
    \E r \in Req :
        /\ r = nextReq
        /\ r > 1
        /\ req[r].op = "InitiateContact"
        /\ req[r].pc = "done"
        /\ req[r].sms[1].outcome = "delivered"
        /\ req[r - 1].op = "HandleInbound"
        /\ req[r - 1].phone = req[r].phone
        /\ Len(heap[r - 1].messages) = 2

\* ------------------------------------------------------------------------
\* C8: the transcript the store holds for a phone only grows: in every
\* step, what it held before is a prefix of what it holds after.
\* ------------------------------------------------------------------------
\* Request r arrives in this step as an InitiateContact request for phone p.
InitiateArrives(r, p) ==
    /\ nextReq = r - 1
    /\ nextReq' = r
    /\ req'[r].op = "InitiateContact"
    /\ req'[r].phone = p

\* C8 as written: append-only in any sequence of operations.
C8_TranscriptAppendOnly ==
    [][\A p \in Phones :
          conversations[p] # NoRef =>
              /\ conversations'[p] # NoRef
              /\ IsPrefix(Transcript(p), Transcript(p)')]_vars

\* C8 amended: append-only except at the arrival of an InitiateContact for
\* the phone, which replaces the Conversation by one with an empty
\* transcript; and a conversation object itself only ever grows.
C8_TranscriptAppendOnlyBetweenInitiations ==
    [][/\ \A p \in Phones :
            conversations[p] # NoRef =>
                /\ conversations'[p] # NoRef
                /\ IF \E r \in Req : InitiateArrives(r, p)
                   THEN Transcript(p)' = <<>>
                   ELSE IsPrefix(Transcript(p), Transcript(p)')
       /\ \A o \in Allocated : IsPrefix(heap[o].messages, heap'[o].messages)]_vars

C8_Witness ==
    \E r1, r2 \in Req :
        /\ r1 < r2
        /\ req[r1].op = "HandleInbound"
        /\ req[r2].op = "InitiateContact"
        /\ req[r1].phone = req[r2].phone
        /\ Len(heap[r1].messages) = 2
        /\ conversations[req[r2].phone] = r2
        /\ Len(heap[r2].messages) = 1

\* ------------------------------------------------------------------------
\* C9: GetConversation answers 404 "Conversation not found" exactly when
\* the store has no Conversation for the phone and otherwise answers with
\* that Conversation and its whole transcript; once it would answer with a
\* Conversation for a phone it never again answers not-found for it.
\* ------------------------------------------------------------------------
GetArrives(r) ==
    /\ nextReq = r - 1
    /\ nextReq' = r
    /\ req'[r].op = "GetConversation"

C9_GetConversation ==
    /\ [][\A r \in Req :
            GetArrives(r) =>
                LET p == req'[r].phone
                    answer == req'[r].res[1]
                IN  /\ Len(req'[r].res) = 1
                    /\ (answer.status = 404) <=> (conversations[p] = NoRef)
                    /\ (answer.status = 404) =>
                           answer.json = [error |-> "Conversation not found"]
                    /\ (answer.status # 404) =>
                           /\ answer.status = 200
                           /\ answer.json.name = heap[conversations[p]].name
                           /\ answer.json.context = heap[conversations[p]].context
                           /\ answer.json.messages = Transcript(p)]_vars
    /\ [][\A p \in Phones :
            GetConversationResponse(p).status # 404
                => GetConversationResponse(p)'.status # 404]_vars

C9_Witness ==
    \E r \in Req :
        /\ req[r].op = "GetConversation"
        /\ req[r].res[1].status = 200
        /\ Len(req[r].res[1].json.messages) > 0

\* ------------------------------------------------------------------------
\* C10: in every state ListConversations answers with one summary per
\* phone of the store and no other; messageCount is the length of the
\* transcript, lastMessage its final Message (absent when it is empty), and
\* no summary carries the transcript.
\* ------------------------------------------------------------------------
C10_ListConversations ==
    LET answer == ListConversationsResponse
    IN  /\ answer.status = 200
        /\ DOMAIN answer.json = {p \in Phones : conversations[p] # NoRef}
        /\ \A p \in DOMAIN answer.json :
              LET summary == answer.json[p]
                  n == Len(Transcript(p))
              IN  /\ summary.messageCount = n
                  /\ summary.name = heap[conversations[p]].name
                  /\ summary.context = heap[conversations[p]].context
                  /\ (n = 0) => ("lastMessage" \notin DOMAIN summary)
                  /\ (n > 0) => /\ "lastMessage" \in DOMAIN summary
                                /\ summary.lastMessage = Transcript(p)[n]
                  /\ "messages" \notin DOMAIN summary

C10_Witness ==
    \E p, q \in Phones :
        /\ conversations[p] # NoRef
        /\ conversations[q] # NoRef
        /\ Len(Transcript(p)) = 0
        /\ Len(Transcript(q)) = 2
        /\ ListConversationsResponse.json[q].lastMessage.direction = "outbound"

\* ------------------------------------------------------------------------
\* C11: two HandleInbound requests from the same phone whose executions
\* interleave can lose an append: a state is reachable in which both have
\* completed successfully and the stored transcript misses a Message that
\* one of them appended.
\* ------------------------------------------------------------------------
IsReply(r) == req[r].op = "HandleInbound" /\ req[r].branch = "reply"

Succeeded(r) ==
    /\ req[r].pc = "done"
    /\ Len(req[r].res) = 1
    /\ req[r].res[1].status = 200

\* Number of entries of transcript t equal to m.
Count(t, m) == Cardinality({i \in 1..Len(t) : t[i] = m})

\* Number of pushes of an entry equal to m onto object o that requests have
\* made: the inbound entry of each reply request that holds o, and the
\* outbound entry of each request that holds o and succeeded.
PushedOnto(o, m) ==
    Cardinality({r \in Req : /\ IsReply(r)
                             /\ req[r].conversation = o
                             /\ m = [direction |-> "inbound", message |-> req[r].body]})
    + Cardinality({r \in Req : /\ req[r].op \in {"InitiateContact", "HandleInbound"}
                               /\ req[r].conversation = o
                               /\ Succeeded(r)
                               /\ m = [direction |-> "outbound", message |-> req[r].text]})

\* Two reply requests from phone p, both completed successfully, with no
\* InitiateContact for p since the first of them arrived.
CompletedPair(r1, r2, p) ==
    /\ r1 < r2
    /\ IsReply(r1) /\ IsReply(r2)
    /\ req[r1].phone = p /\ req[r2].phone = p
    /\ Succeeded(r1) /\ Succeeded(r2)
    /\ \A r \in Req : (r > r1 /\ req[r].phone = p) => req[r].op # "InitiateContact"

\* The Messages the two requests appended.
AppendedBy(r1, r2) ==
    {[direction |-> "inbound", message |-> req[r1].body],
     [direction |-> "outbound", message |-> req[r1].text],
     [direction |-> "inbound", message |-> req[r2].body],
     [direction |-> "outbound", message |-> req[r2].text]}

\* The stored transcript of p holds fewer entries m than were pushed.
Missing(p, m) == Count(Transcript(p), m) < PushedOnto(conversations[p], m)

\* The second request ran while the first was suspended: its inbound entry
\* lies before the first request's outbound entry.
Interleaved(r1, r2, p) ==
    \E i, j \in 1..Len(Transcript(p)) :
        /\ i < j
        /\ Transcript(p)[i] = [direction |-> "inbound", message |-> req[r2].body]
        /\ Transcript(p)[j] = [direction |-> "outbound", message |-> req[r1].text]
        /\ \A k \in 1..Len(Transcript(p)) :
              Transcript(p)[k] = Transcript(p)[j] => k >= j

DispatchFailed(r) ==
    /\ req[r].pc = "done"
    /\ req[r].sms[1].outcome = "failed"

C12_InboundDispatchFailure ==
    /\ [][\A r \in Req :
            (StepOf(r) /\ IsReply(r) /\ DispatchFailed(r)') =>
                /\ Len(req'[r].res) = 1
                /\ req'[r].res[1].status = 500
                /\ req'[r].res[1].send = emptyTwiML
                /\ UNCHANGED <<conversations, heap>>]_vars
    /\ [](\A r \in Req :
            (IsReply(r) /\ DispatchFailed(r)) =>
                LET t == heap[req[r].conversation].messages
                    inbound == [direction |-> "inbound", message |-> req[r].body]
                    outbound == [direction |-> "outbound", message |-> req[r].text]
                IN  /\ Count(t, inbound) >= 1
                    /\ Count(t, inbound) >= PushedOnto(req[r].conversation, inbound)
                    /\ Count(t, outbound) <= PushedOnto(req[r].conversation, outbound)
                    /\ (conversations[req[r].phone] = req[r].conversation)
                           => Count(Transcript(req[r].phone), inbound) >= 1)

C12_Witness ==
    \E r \in Req :
        /\ IsReply(r)
        /\ DispatchFailed(r)
        /\ req[r].res[1].status = 500
        /\ Transcript(req[r].phone) = <<[direction |-> "inbound", message |-> req[r].body]>>

C14_ConfirmBeforeReschedule ==
    \A r \in Req :
        (IsConfirmRequest(r) /\ IsRescheduleRequest(r)) =>
            /\ Len(req[r].sms) = 1
            /\ req[r].sms[1].to = req[r].phone
            /\ req[r].sms[1].body = confirmMessage
            /\ req[r].sms[1].body # rescheduleMessage
            /\ req[r].ai = <<>>
            /\ req[r].pc \in {"sms", "done"}

C14_Witness ==
    \E r \in Req :
        /\ IsConfirmRequest(r)
        /\ IsRescheduleRequest(r)
        /\ req[r].pc = "done"
        /\ req[r].sms[1].outcome = "delivered"

\* ------------------------------------------------------------------------
\* C15: the history handed to the Composer by a non-keyword HandleInbound
\* request is exactly the last min(3, n) Messages of the n-entry transcript,
\* in transcript order, each as "direction: message" on a line of its own;
\* its last line is the inbound Message the request has just appended; and
\* no later step, of this or another request, changes what was handed over.
\* (Checked under WarmSpec, where transcripts grow beyond three entries.)
\* ------------------------------------------------------------------------
RECURSIVE RenderHistory(_)
RenderHistory(ms) ==
    IF ms = <<>> THEN <<>>
    ELSE LET n == Len(ms)
             line == <<ms[n].direction, ":", " ">> \o ms[n].message
         IN  IF n = 1 THEN line
             ELSE RenderHistory(SubSeq(ms, 1, n - 1)) \o <<"\n">> \o line

\* The last min(3, Len(t)) entries of t.
LastThree(t) ==
    LET n == Len(t)
        k == IF n < 3 THEN n ELSE 3
    IN  [i \in 1..k |-> t[n - k + i]]

C15_HistoryIsLastThree ==
    /\ [][\A r \in Req :
            (InboundArrives(r) /\ IsReply(r)') =>
                LET t == heap'[req'[r].conversation].messages
                IN  /\ Len(req'[r].ai) = 1
                    /\ req'[r].ai[1].conversationHistory = RenderHistory(LastThree(t))
                    /\ t[Len(t)] = [direction |-> "inbound", message |-> req'[r].body]]_vars
    /\ [][\A r \in Req :
            (IsReply(r) /\ req[r].ai # <<>>) =>
                /\ req'[r].ai # <<>>
                /\ req'[r].ai[1].conversationHistory = req[r].ai[1].conversationHistory]_vars

C15_Witness ==
    \E r1, r2 \in Req :
        /\ r1 < r2
        /\ IsReply(r1) /\ IsReply(r2)
        /\ req[r1].phone = req[r2].phone
        /\ req[r1].pc # "done"
        /\ Len(heap[req[r2].conversation].messages) >= 4
        /\ req[r2].ai[1].conversationHistory =
              RenderHistory(<<[direction |-> "outbound", message |-> <<"S", "u", "r", "e", "!">>],
                              [direction |-> "inbound", message |-> req[r1].body],
                              [direction |-> "inbound", message |-> req[r2].body]>>)

\* ------------------------------------------------------------------------
\* C16: no request retries an external call.  InitiateContact and
\* non-keyword HandleInbound requests call the completion API at most once
\* and the SMS transport at most once; keyword requests call the transport
\* at most once and the completion API never; the read-only requests call
\* neither; and a call that has settled is never issued again.
\* ------------------------------------------------------------------------
IsKeywordRequest(r) ==
    req[r].op = "HandleInbound" /\ IsKeywordBody(req[r].body)

IsReadOnly(r) == req[r].op \in {"GetConversation", "ListConversations"}

Settled(calls) == Len(calls) = 1 /\ calls[1].outcome # "pending"

C16_NoRetries ==
    /\ [](\A r \in Req :
            /\ Len(req[r].ai) <= 1
            /\ Len(req[r].sms) <= 1
            /\ IsKeywordRequest(r) => req[r].ai = <<>>
            /\ IsReadOnly(r) => (req[r].ai = <<>> /\ req[r].sms = <<>>))
    /\ [][\A r \in Req :
            /\ Settled(req[r].ai) => req'[r].ai = req[r].ai
            /\ Settled(req[r].sms) => req'[r].sms = req[r].sms]_vars

C16_Witness ==
    \E r1, r2 \in Req :
        /\ req[r1].op = "InitiateContact"
        /\ IsReply(r2)
        /\ \A r \in {r1, r2} :
              /\ req[r].pc = "done"
              /\ req[r].ai[1].outcome = "caught"
              /\ req[r].sms[1].outcome = "failed"

\* ------------------------------------------------------------------------
\* C17: every outbound Message of a transcript has a body that was
\* successfully dispatched to the Conversation's phone: for each phone and
\* body there are at most as many outbound entries as delivered dispatches,
\* in the stored transcript and in every conversation object made for the
\* phone; no entry stands for a failed or pending dispatch.
\* ------------------------------------------------------------------------
\* Number of delivered dispatches of text b to phone p.
Delivered(p, b) ==
    Cardinality({r \in Req : /\ req[r].sms # <<>>
                             /\ req[r].sms[1].to = p
                             /\ req[r].sms[1].body = b
                             /\ req[r].sms[1].outcome = "delivered"})

OutboundsBacked(p, t) ==
    \A i \in 1..Len(t) :
        t[i].direction = "outbound" =>
            /\ Delivered(p, t[i].message) >= 1
            /\ Count(t, t[i]) <= Delivered(p, t[i].message)

C17_OutboundOnlyAfterDelivery ==
    /\ \A p \in Phones :
          conversations[p] # NoRef => OutboundsBacked(p, Transcript(p))
    /\ \A o \in Allocated \cap Req : OutboundsBacked(req[o].phone, heap[o].messages)

C17_Witness ==
    \E p \in Phones : \E r1, r2 \in Req :
        /\ conversations[p] # NoRef
        /\ req[r1].phone = p /\ req[r2].phone = p
        /\ IsReply(r1) /\ Succeeded(r1)
        /\ IsReply(r2) /\ DispatchFailed(r2)
        /\ Count(Transcript(p), [direction |-> "outbound", message |-> req[r1].text]) = 1
        /\ req[r1].text # req[r2].text
        /\ Count(Transcript(p), [direction |-> "outbound", message |-> req[r2].text]) = 0

\* ------------------------------------------------------------------------
\* C18: under any interleaving of InitiateContact and HandleInbound
\* requests for one phone, the outbound Message a request appends after its
\* successful dispatch is in the Conversation stored for the phone when the
\* request completes (it is not written to a record that has been
\* replaced), and the record an InitiateContact request created receives no
\* greeting of another InitiateContact request.
\* ------------------------------------------------------------------------
\* Request r completes successfully in this step.
CompletesSuccessfully(r) ==
    /\ req[r].pc = "sms"
    /\ Succeeded(r)'
    /\ req'[r].op = "InitiateContact" \/ IsReply(r)'

C18_OutboundLandsInStoredRecord ==
    [][\A r \in Req :
          CompletesSuccessfully(r) =>
              /\ conversations'[req[r].phone] = req'[r].conversation
              /\ Count(Transcript(req[r].phone)',
                       [direction |-> "outbound", message |-> req'[r].text]) >= 1]_vars

C18_GreetingLandsInOwnRecord ==
    \A r1, r2 \in Req :
        (/\ r1 # r2
         /\ req[r1].op = "InitiateContact"
         /\ req[r2].op = "InitiateContact"
         /\ Succeeded(r2)) => req[r2].conversation # r1

C18_RepliesAndGreetingsLandInPlace ==
    /\ C18_OutboundLandsInStoredRecord
    /\ []C18_GreetingLandsInOwnRecord

\* ------------------------------------------------------------------------
\* C19: when every external call eventually resolves or rejects, every
\* InitiateContact and HandleInbound request eventually has exactly one
\* HTTP response: no request ever has two, a finished request has one, a
\* response once written is never followed by another, and again and again
\* (so, responses being permanent, for each request from some point on)
\* every request that has arrived has its response.  (Checked under
\* FairSpec.)
\* ------------------------------------------------------------------------
IsOrchestrated(r) == req[r].op \in {"InitiateContact", "HandleInbound"}

C19_ExactlyOneResponse ==
    /\ [](\A r \in Req :
            /\ Len(req[r].res) <= 1
            /\ (req[r].pc = "done") <=> (Len(req[r].res) = 1))
    /\ [][\A r \in Req : req[r].res # <<>> => req'[r].res = req[r].res]_vars
    /\ []<>(\A r \in Req : IsOrchestrated(r) => Len(req[r].res) = 1)

C19_Witness ==
    \E r1, r2 \in Req :
        /\ req[r1].op = "InitiateContact"
        /\ req[r2].op = "HandleInbound"
        /\ DispatchFailed(r1)
        /\ Len(req[r1].res) = 1
        /\ req[r2].pc = "done"
        /\ Len(req[r2].res) = 1

====
